---- MODULE Spec2Model ----
(***************************************************************************)
(* Benchmark run lifecycle and metrics engine of src/src/benchmark.ts.     *)
(*                                                                         *)
(* The file holds two variants of the same program (lines 1-420 and lines  *)
(* 421-887).  They share the run state machine and the metric derivation   *)
(* and differ in the loading progress events and in the token callback.    *)
(* The variable `variant` says which of the two is running.                *)
(*                                                                         *)
(* JavaScript numbers are modelled as exact fractions n/d; Infinity is 1/0 *)
(* and NaN is 0/0, the values the code's divisions produce.  Instants of   *)
(* performance.now() are whole clock units (milliseconds).                 *)
(* An absent value (null) is the empty sequence, a present value v is <<v>>.*)
(***************************************************************************)
EXTENDS Integers, Sequences, FiniteSets, TLC

\* ---------------------------------------------------------------- bounds
MaxTime == 3        \* SpecTiming: performance.now() ranges over 0..MaxTime
MaxTarget == 2      \* SpecTiming: the token-count selection ranges over 1..MaxTarget
MaxLifeTarget == 1  \* Spec: the token-count selection ranges over 1..MaxLifeTarget
Slack == 1          \* token callbacks the collaborator may emit beyond max_new_tokens
MaxRuns == 3        \* Spec: run requests accepted in one behaviour

\* values of the options of modelSelect: the page that defines them is not part of
\* the sources, so an identifier is any string; one of the two holds a comma
Models == {"m1", "m,2"}
Devices == {"webgpu", "wasm"}
Targets == 1..MaxTarget
LifeTargets == 1..MaxLifeTarget
Variants == {"A", "B"}
Pcts == {0, 50, 100}             \* download fractions progress.progress
Reasons == {"err"}               \* error.message of a collaborator failure

VARIABLES
    variant,          \* which variant of the program runs
    gpu,              \* navigator.gpu is available
    now,              \* the latest instant performance.now() has returned
    deviceSelect,     \* elements.deviceSelect.value
    isRunning, generator, currentModel, results,   \* module-level state
    statusText, progress,                      \* status line and progress bar width
    pc,               \* where the asynchronous runBenchmark flow is suspended
    modelId, device, maxTokens,                \* runBenchmark's captured constants
    tokenTimestamps, firstTokenTime, startTime,\* runBenchmark's timing locals
    trace,            \* history: RunStates the current (or last) run went through
    activeRuns,       \* history: runBenchmark flows past the guard, not yet reset
    loadCalls, genCalls,  \* history: collaborator calls made by the current (or last) run
    lastEvent,        \* history: kind of the last event handled
    changedWhileIdle, \* history: a device change happened in Idle since the last run ended,
                      \* kept until the run accepted after it ends
    arrivals,         \* history: token-arrival events of the current run
    genCalledAt,      \* history: instant the generate collaborator was called in this run
    runs              \* history: run requests accepted so far

envVars == <<variant, gpu, deviceSelect>>
moduleVars == <<isRunning, generator, currentModel, results>>
uiVars == <<statusText, progress>>
localVars == <<pc, modelId, device, maxTokens, tokenTimestamps, firstTokenTime, startTime>>
progVars == <<moduleVars, uiVars, localVars>>
histVars == <<trace, activeRuns, loadCalls, genCalls, lastEvent, changedWhileIdle,
              arrivals, genCalledAt, runs>>
vars == <<envVars, now, progVars, histVars>>

\* ------------------------------------------------------------ JS numbers
RECURSIVE GCD(_, _)
GCD(a, b) == IF b = 0 THEN a ELSE GCD(b, a % b)

Abs(x) == IF x < 0 THEN -x ELSE x

\* the fraction n/d in lowest terms, d > 0
Rat(n, d) == LET g == GCD(Abs(n), d) IN [n |-> n \div g, d |-> d \div g]

Num(n) == [n |-> n, d |-> 1]
Infinity == [n |-> 1, d |-> 0]
NaN == [n |-> 0, d |-> 0]
IsFinite(x) == x.d > 0

\* a / b on non-negative numbers, as IEEE division: x/0 is Infinity, 0/0 is NaN
JSDiv(a, b) ==
    IF b.n = 0
    THEN (IF a.n = 0 THEN NaN ELSE Infinity)
    ELSE Rat(a.n * b.d, a.d * b.n)

JSAdd(a, b) == Rat(a.n * b.d + b.n * a.d, a.d * b.d)
JSMul(a, b) == Rat(a.n * b.n, a.d * b.d)
JSLeq(a, b) == a.n * b.d <= b.n * a.d
JSMin(a, b) == IF JSLeq(a, b) THEN a ELSE b

\* ---------------------------------------------------------- null values
Null == <<>>
Some(v) == <<v>>
\* JavaScript truthiness of a number-or-null: null and 0 are falsy
Truthy(x) == x # Null /\ x[1] # 0

\* ------------------------------------------------------- metric derivation
RECURSIVE SumSeq(_)
SumSeq(s) == IF s = <<>> THEN 0 ELSE s[1] + SumSeq(Tail(s))

\* the loop that collects tokenTimestamps[i] - tokenTimestamps[i - 1], i = 1..length-1
Latencies(ts) == [i \in 1..(Len(ts) - 1) |-> ts[i + 1] - ts[i]]

\* const totalTime = (endTime - startTime) / 1000
TotalTime(start, end) == JSDiv(Num(end - start), Num(1000))

\* faulty variant: the start instant is not subtracted
TtftAbsolute(first, start) == IF Truthy(first) THEN Num(first[1]) ELSE Num(0)

\* const ttft = firstTokenTime ? (firstTokenTime - startTime) : 0
Ttft(first, start) == IF Truthy(first) THEN Num(first[1] - start) ELSE Num(0)

\* faulty variant: the sum of the deltas is divided by the number of tokens
ItlOverTokens(ts) ==
    IF Len(ts) > 1
    THEN JSDiv(Num(SumSeq(Latencies(ts))), Num(Len(ts)))
    ELSE Num(0)

\* let itl = 0; if (length > 1) itl = latencies.reduce(+, 0) / latencies.length
Itl(ts) ==
    IF Len(ts) > 1
    THEN JSDiv(Num(SumSeq(Latencies(ts))), Num(Len(Latencies(ts))))
    ELSE Num(0)

\* faulty variant: the total time is taken in milliseconds
TokensPerMillisecond(numTokens, totalTime) ==
    JSDiv(Num(numTokens), JSMul(totalTime, Num(1000)))

\* const tokensPerSecond = numTokens / totalTime
TokensPerSecond(numTokens, totalTime) == JSDiv(Num(numTokens), totalTime)

\* the record stored in `results`
BuildResults(m, d, n, ts, first, start, end) ==
    [model |-> m, device |-> d, maxTokens |-> n,
     metrics |-> [ttft |-> Ttft(first, start),
                  itl |-> Itl(ts),
                  tokensGenerated |-> Len(ts),
                  totalTimeSeconds |-> TotalTime(start, end),
                  tokensPerSecond |-> TokensPerSecond(Len(ts), TotalTime(start, end))],
     tokenTimestamps |-> ts,
     timestamp |-> end,
     userAgent |-> "ua"]

\* ------------------------------------------------------------- RunState
\* The RunState of the spec, read off the code's state: Completed and Failed are
\* passed through inside one handler and show only in `trace`.
RunState ==
    IF ~isRunning THEN "Idle"
    ELSE IF pc = "loading" THEN "LoadingModel" ELSE "Generating"

Status(msg, arg) == [msg |-> msg, arg |-> arg]

\* ----------------------------------------------------------------- Init
Init ==
    /\ variant \in Variants
    /\ gpu \in BOOLEAN
    /\ now = 0
    /\ deviceSelect \in Devices
    /\ isRunning = FALSE
    /\ generator = Null
    /\ currentModel = Null
    /\ results = Null
    /\ statusText = Status("Ready to benchmark. Select a model and click Start.", "")
    /\ progress = Num(0)
    /\ pc = "idle"
    /\ modelId = "none"
    /\ device = "none"
    /\ maxTokens = 0
    /\ tokenTimestamps = <<>>
    /\ firstTokenTime = Null
    /\ startTime = 0
    /\ trace = <<"Idle">>
    /\ activeRuns = 0
    /\ loadCalls = 0
    /\ genCalls = 0
    /\ lastEvent = "other"
    /\ changedWhileIdle = FALSE
    /\ arrivals = 0
    /\ genCalledAt = 0
    /\ runs = 0

\* -------------------------------------------------------------- actions
\* A call of performance.now() returns some instant t in Instants: the clock is
\* monotonic and any amount of time may have passed since it was last read.
Instants == now..MaxTime
\* In Spec, which follows several runs, no time passes between two readings.
Frozen == {now}

\* faulty variant: the running flag is left as it is
ResetBenchmarkStateKeepsFlag ==
    /\ isRunning' = isRunning
    /\ pc' = "idle"
    /\ modelId' = "none"
    /\ device' = "none"
    /\ maxTokens' = 0
    /\ tokenTimestamps' = <<>>
    /\ firstTokenTime' = Null
    /\ startTime' = 0
    /\ activeRuns' = activeRuns - 1
    /\ arrivals' = 0
    /\ genCalledAt' = 0
    /\ changedWhileIdle' = FALSE

\* resetBenchmarkState(), and the run's locals going out of scope
ResetBenchmarkState ==
    /\ isRunning' = FALSE
    /\ pc' = "idle"
    /\ modelId' = "none"
    /\ device' = "none"
    /\ maxTokens' = 0
    /\ tokenTimestamps' = <<>>
    /\ firstTokenTime' = Null
    /\ startTime' = 0
    /\ activeRuns' = activeRuns - 1
    /\ arrivals' = 0
    /\ genCalledAt' = 0
    /\ changedWhileIdle' = FALSE

\* faulty variant: the log is the array the stored result holds, not a new one
BeginGeneratingKeepsLog(t) ==
    /\ statusText' = Status("Generating tokens...", "")
    /\ progress' = Num(60)
    /\ tokenTimestamps' = IF results = Null THEN <<>> ELSE results[1].tokenTimestamps
    /\ firstTokenTime' = Null
    /\ startTime' = t
    /\ now' = t
    /\ pc' = "generating"
    /\ genCalls' = 1
    /\ arrivals' = 0
    /\ genCalledAt' = t

\* runBenchmark from 'Starting benchmark...' to the suspended generator call;
\* t is what performance.now() returns for startTime
BeginGenerating(t) ==
    /\ statusText' = Status("Generating tokens...", "")
    /\ progress' = Num(60)
    /\ tokenTimestamps' = <<>>
    /\ firstTokenTime' = Null
    /\ startTime' = t
    /\ now' = t
    /\ pc' = "generating"
    /\ genCalls' = 1
    /\ arrivals' = 0
    /\ genCalledAt' = t

\* faulty variants: no guard; a guard that holds only while the model loads
RejectsNever == FALSE
RejectsOnlyWhileLoading == isRunning /\ pc = "loading"

\* if (isRunning) return;
Rejects == isRunning

\* faulty variant: the WebGPU check is missing
UnsupportedNever(d) == FALSE

\* device === 'webgpu' && !navigator.gpu
Unsupported(d) == d = "webgpu" /\ ~gpu

\* !generator || currentModel !== modelId
NeedsLoad(m) == generator = Null \/ currentModel # Some(m)

\* click on the start button: runBenchmark up to its first await or return;
\* m and n are the values of modelSelect and tokensSelect when they are read,
\* t is what performance.now() returns for startTime, limit bounds the runs
RunBenchmark(m, n, t, limit) ==
    /\ lastEvent' = "click"
    /\ UNCHANGED envVars
    /\ IF Rejects
       THEN UNCHANGED <<now, progVars, trace, activeRuns, loadCalls, genCalls,
                        changedWhileIdle, arrivals, genCalledAt, runs>>
       ELSE /\ runs < limit
            /\ runs' = runs + 1
            /\ UNCHANGED <<generator, currentModel, results>>
            /\ IF Unsupported(deviceSelect)
               THEN /\ statusText' = Status("WebGPU not supported in this browser. Please use WASM instead.", "")
                    /\ progress' = Num(0)
                    /\ isRunning' = FALSE
                    /\ trace' = <<"Idle", "Failed", "Idle">>
                    /\ loadCalls' = 0
                    /\ genCalls' = 0
                    /\ changedWhileIdle' = FALSE
                    /\ UNCHANGED <<now, localVars, activeRuns, arrivals, genCalledAt>>
               ELSE /\ isRunning' = TRUE
                    /\ UNCHANGED changedWhileIdle
                    /\ activeRuns' = activeRuns + 1
                    /\ modelId' = m
                    /\ device' = deviceSelect
                    /\ maxTokens' = n
                    /\ IF NeedsLoad(m)
                       THEN /\ statusText' = Status("Loading model", m)
                            /\ progress' = Num(10)
                            /\ pc' = "loading"
                            /\ trace' = <<"Idle", "LoadingModel">>
                            /\ loadCalls' = 1
                            /\ genCalls' = 0
                            /\ UNCHANGED <<now, tokenTimestamps, firstTokenTime, startTime,
                                           arrivals, genCalledAt>>
                       ELSE /\ BeginGenerating(t)
                            /\ trace' = <<"Idle", "Generating">>
                            /\ loadCalls' = 0

\* progress_callback of the pipeline load, for one progress event
ProgressUpdate(status, pct) ==
    IF variant = "A"
    THEN CASE status = "downloading" -> Some([text |-> Status("Downloading", ToString(pct)),
                                              p |-> JSAdd(Num(10), JSMul(Num(pct), Rat(3, 10)))])
           [] status = "loading" -> Some([text |-> Status("Loading model into memory...", ""),
                                          p |-> Num(45)])
           [] OTHER -> Null
    ELSE CASE status = "initiate" -> Some([text |-> Status("Initializing", ""), p |-> Num(5)])
           [] status = "download" -> Some([text |-> Status("Starting download", ""), p |-> Num(8)])
           [] status = "progress" -> Some([text |-> Status("Downloading", ToString(pct)),
                                           p |-> JSAdd(Num(10), JSMul(Num(pct), Rat(35, 100)))])
           [] status = "done" -> Some([text |-> Status("Downloaded", ""), p |-> Num(45)])
           [] status \in {"loading", "ready"} -> Some([text |-> Status("Loading model into memory...", ""),
                                                       p |-> Num(48)])
           [] OTHER -> Null

LoadStatuses == {"initiate", "download", "downloading", "progress", "done", "loading", "ready"}

ProgressCallback(status, pct) ==
    /\ pc = "loading"
    /\ LET u == ProgressUpdate(status, pct) IN
         IF u = Null
         THEN UNCHANGED uiVars
         ELSE statusText' = u[1].text /\ progress' = u[1].p
    /\ lastEvent' = "other"
    /\ UNCHANGED <<envVars, now, moduleVars, localVars, trace, activeRuns, loadCalls,
                   genCalls, changedWhileIdle, arrivals, genCalledAt, runs>>

\* the pipeline promise resolves: loadModel returns true and runBenchmark goes on
\* to call the generator; t is what performance.now() returns for startTime
LoadResolved(t) ==
    /\ pc = "loading"
    /\ generator' = Some([model |-> modelId, device |-> device])
    /\ currentModel' = Some(modelId)
    /\ BeginGenerating(t)
    /\ trace' = Append(trace, "Generating")
    /\ lastEvent' = "other"
    /\ UNCHANGED <<envVars, isRunning, results, modelId, device, maxTokens,
                   activeRuns, loadCalls, changedWhileIdle, runs>>

\* faulty variant: a failed load drops the pipeline that was resident
LoadRejectedClearsPipeline(reason) ==
    /\ pc = "loading"
    /\ generator' = Null
    /\ currentModel' = Null
    /\ statusText' = Status("Error loading model", reason)
    /\ progress' = Num(0)
    /\ ResetBenchmarkState
    /\ trace' = trace \o <<"Failed", "Idle">>
    /\ lastEvent' = "other"
    /\ UNCHANGED <<envVars, now, results, loadCalls, genCalls, runs>>

\* faulty variant: the return value of loadModel is ignored
LoadRejectedGoesOn(reason) ==
    /\ pc = "loading"
    /\ BeginGenerating(now)
    /\ trace' = trace \o <<"Failed", "Generating">>
    /\ lastEvent' = "other"
    /\ UNCHANGED <<envVars, moduleVars, modelId, device, maxTokens, activeRuns, loadCalls,
                   changedWhileIdle, runs>>

\* faulty variant: a failed load is tried once more before giving up
LoadRejectedRetries(reason) ==
    /\ pc = "loading"
    /\ lastEvent' = "other"
    /\ IF loadCalls < 2
       THEN /\ loadCalls' = loadCalls + 1
            /\ statusText' = Status("Loading model", modelId)
            /\ progress' = Num(10)
            /\ UNCHANGED <<envVars, now, moduleVars, localVars, trace, activeRuns, genCalls,
                           changedWhileIdle, arrivals, genCalledAt, runs>>
       ELSE /\ statusText' = Status("Error loading model", reason)
            /\ progress' = Num(0)
            /\ ResetBenchmarkState
            /\ trace' = trace \o <<"Failed", "Idle">>
            /\ UNCHANGED <<envVars, now, generator, currentModel, results, loadCalls,
                           genCalls, runs>>

\* the pipeline promise rejects: loadModel returns false, runBenchmark resets
LoadRejected(reason) ==
    /\ pc = "loading"
    /\ statusText' = Status("Error loading model", reason)
    /\ progress' = Num(0)
    /\ ResetBenchmarkState
    /\ trace' = trace \o <<"Failed", "Idle">>
    /\ lastEvent' = "other"
    /\ UNCHANGED <<envVars, now, generator, currentModel, results, loadCalls, genCalls, runs>>

\* 60 + (tokenTimestamps.length / maxTokens) * 35, capped at 95 in the second variant
TokenProgress(len, max) ==
    LET p == JSAdd(Num(60), JSMul(JSDiv(Num(len), Num(max)), Num(35)))
    IN IF variant = "A" THEN p ELSE JSMin(p, Num(95))

\* faulty variant: an arrival at the instant of the previous one is not logged
CallbackFunctionDedup(t) ==
    /\ pc = "generating"
    /\ Len(tokenTimestamps) < maxTokens + Slack
    /\ now' = t
    /\ firstTokenTime' = IF Len(tokenTimestamps) = 0 THEN Some(t) ELSE firstTokenTime
    /\ tokenTimestamps' = IF tokenTimestamps # <<>> /\ tokenTimestamps[Len(tokenTimestamps)] = t
                          THEN tokenTimestamps
                          ELSE Append(tokenTimestamps, t)
    /\ progress' = TokenProgress(Len(tokenTimestamps') , maxTokens)
    /\ statusText' = Status("Generating", ToString(Len(tokenTimestamps')))
    /\ arrivals' = arrivals + 1
    /\ lastEvent' = "other"
    /\ UNCHANGED <<envVars, moduleVars, pc, modelId, device, maxTokens, startTime, trace,
                   activeRuns, loadCalls, genCalls, changedWhileIdle, genCalledAt, runs>>

\* faulty variant: the new timestamp is put in front of the log
CallbackFunctionPrepends(t) ==
    /\ pc = "generating"
    /\ Len(tokenTimestamps) < maxTokens + Slack
    /\ now' = t
    /\ firstTokenTime' = IF Len(tokenTimestamps) = 0 THEN Some(t) ELSE firstTokenTime
    /\ tokenTimestamps' = <<t>> \o tokenTimestamps
    /\ progress' = TokenProgress(Len(tokenTimestamps) + 1, maxTokens)
    /\ statusText' = Status("Generating", ToString(Len(tokenTimestamps) + 1))
    /\ arrivals' = arrivals + 1
    /\ lastEvent' = "other"
    /\ UNCHANGED <<envVars, moduleVars, pc, modelId, device, maxTokens, startTime, trace,
                   activeRuns, loadCalls, genCalls, changedWhileIdle, genCalledAt, runs>>

\* callback_function: one token-arrival event; t is what performance.now() returns
CallbackFunction(t) ==
    /\ pc = "generating"
    /\ Len(tokenTimestamps) < maxTokens + Slack
    /\ now' = t
    /\ firstTokenTime' = IF Len(tokenTimestamps) = 0 THEN Some(t) ELSE firstTokenTime
    /\ tokenTimestamps' = Append(tokenTimestamps, t)
    /\ progress' = TokenProgress(Len(tokenTimestamps) + 1, maxTokens)
    /\ statusText' = Status("Generating", ToString(Len(tokenTimestamps) + 1))
    /\ arrivals' = arrivals + 1
    /\ lastEvent' = "other"
    /\ UNCHANGED <<envVars, moduleVars, pc, modelId, device, maxTokens, startTime, trace,
                   activeRuns, loadCalls, genCalls, changedWhileIdle, genCalledAt, runs>>

\* faulty variant: the result records the device selected when the run ends
GenerateResolvedReadsSelect(t) ==
    /\ pc = "generating"
    /\ now' = t
    /\ results' = Some(BuildResults(modelId, deviceSelect, maxTokens, tokenTimestamps,
                                    firstTokenTime, startTime, t))
    /\ statusText' = Status("Benchmark complete!", "")
    /\ progress' = Num(100)
    /\ ResetBenchmarkState
    /\ trace' = trace \o <<"Completed", "Idle">>
    /\ lastEvent' = "other"
    /\ UNCHANGED <<envVars, generator, currentModel, loadCalls, genCalls, runs>>

\* faulty variant: the end instant is the one read before the generator call
GenerateResolvedEndAtStart(t) ==
    /\ pc = "generating"
    /\ now' = t
    /\ results' = Some(BuildResults(modelId, device, maxTokens, tokenTimestamps,
                                    firstTokenTime, startTime, startTime))
    /\ statusText' = Status("Benchmark complete!", "")
    /\ progress' = Num(100)
    /\ ResetBenchmarkState
    /\ trace' = trace \o <<"Completed", "Idle">>
    /\ lastEvent' = "other"
    /\ UNCHANGED <<envVars, generator, currentModel, loadCalls, genCalls, runs>>

\* the generator call resolves: metrics, results, 'Benchmark complete!', reset;
\* t is what performance.now() returns for endTime
GenerateResolved(t) ==
    /\ pc = "generating"
    /\ now' = t
    /\ results' = Some(BuildResults(modelId, device, maxTokens, tokenTimestamps,
                                    firstTokenTime, startTime, t))
    /\ statusText' = Status("Benchmark complete!", "")
    /\ progress' = Num(100)
    /\ ResetBenchmarkState
    /\ trace' = trace \o <<"Completed", "Idle">>
    /\ lastEvent' = "other"
    /\ UNCHANGED <<envVars, generator, currentModel, loadCalls, genCalls, runs>>

\* faulty variant: the catch block shows no message
GenerateRejectedSilent(reason) ==
    /\ pc = "generating"
    /\ progress' = Num(0)
    /\ ResetBenchmarkState
    /\ trace' = trace \o <<"Failed", "Idle">>
    /\ lastEvent' = "other"
    /\ UNCHANGED <<envVars, now, generator, currentModel, results, statusText, loadCalls,
                   genCalls, runs>>

\* faulty variant: the catch block drops the stored result
GenerateRejectedClearsResults(reason) ==
    /\ pc = "generating"
    /\ statusText' = Status("Error", reason)
    /\ progress' = Num(0)
    /\ results' = Null
    /\ ResetBenchmarkState
    /\ trace' = trace \o <<"Failed", "Idle">>
    /\ lastEvent' = "other"
    /\ UNCHANGED <<envVars, now, generator, currentModel, loadCalls, genCalls, runs>>

\* the generator call rejects: the catch block, then reset
GenerateRejected(reason) ==
    /\ pc = "generating"
    /\ statusText' = Status("Error", reason)
    /\ progress' = Num(0)
    /\ ResetBenchmarkState
    /\ trace' = trace \o <<"Failed", "Idle">>
    /\ lastEvent' = "other"
    /\ UNCHANGED <<envVars, now, generator, currentModel, results, loadCalls, genCalls, runs>>

\* faulty variant: the handler leaves the pipeline resident
DeviceChangeKeepsPipeline(d) ==
    /\ d # deviceSelect
    /\ deviceSelect' = d
    /\ statusText' = Status("Device changed. Model will be reloaded on next benchmark.", "")
    /\ changedWhileIdle' = (changedWhileIdle \/ ~isRunning)
    /\ lastEvent' = "other"
    /\ UNCHANGED <<variant, gpu, now, isRunning, generator, currentModel, results, progress,
                   localVars, trace, activeRuns, loadCalls, genCalls, arrivals,
                   genCalledAt, runs>>

\* faulty variant: the handler also resets the progress bar
DeviceChangeResetsProgress(d) ==
    /\ d # deviceSelect
    /\ deviceSelect' = d
    /\ generator' = Null
    /\ currentModel' = Null
    /\ statusText' = Status("Device changed. Model will be reloaded on next benchmark.", "")
    /\ progress' = Num(0)
    /\ changedWhileIdle' = (changedWhileIdle \/ ~isRunning)
    /\ lastEvent' = "other"
    /\ UNCHANGED <<variant, gpu, now, isRunning, results, localVars, trace,
                   activeRuns, loadCalls, genCalls, arrivals, genCalledAt, runs>>

\* the user picks another device: the 'change' handler of deviceSelect
DeviceChange(d) ==
    /\ d # deviceSelect
    /\ deviceSelect' = d
    /\ generator' = Null
    /\ currentModel' = Null
    /\ statusText' = Status("Device changed. Model will be reloaded on next benchmark.", "")
    /\ changedWhileIdle' = (changedWhileIdle \/ ~isRunning)
    /\ lastEvent' = "other"
    /\ UNCHANGED <<variant, gpu, now, isRunning, results, progress, localVars, trace,
                   activeRuns, loadCalls, genCalls, arrivals, genCalledAt, runs>>

\* ------------------------------------------------------- detailed results
\* faulty variant: the loop stops one short and misses the last delta
GetLatenciesDropsLast(r) ==
    IF r = Null \/ Len(r[1].tokenTimestamps) < 3
    THEN <<0>>
    ELSE [i \in 1..(Len(r[1].tokenTimestamps) - 2) |->
             r[1].tokenTimestamps[i + 1] - r[1].tokenTimestamps[i]]

\* getLatencies(), r being the value of `results`
GetLatenciesOf(r) ==
    IF r = Null \/ Len(r[1].tokenTimestamps) < 2
    THEN <<0>>
    ELSE Latencies(r[1].tokenTimestamps)
GetLatencies == GetLatenciesOf(results)

\* Math.min(...s) and Math.max(...s) of a list that is not empty
MathMin(s) == CHOOSE x \in {s[i] : i \in 1..Len(s)} : \A i \in 1..Len(s) : x <= s[i]
MathMax(s) == CHOOSE x \in {s[i] : i \in 1..Len(s)} : \A i \in 1..Len(s) : x >= s[i]

\* the 'ITL (min)' and 'ITL (max)' rows of showDetailedResults
ItlMin == MathMin(GetLatencies)
ItlMax == MathMax(GetLatencies)

\* ----------------------------------------------------------- live metrics
\* What the metric elements show after callback_function has run for a log ts
\* that is not empty: the first variant writes none of them; the second shows
\* the count, the mean delta from the second token on, and ttft from the call
\* that logged the first token if firstTokenTime is truthy.  An element that
\* still shows the dash of resetDisplay is Null.
LiveSnapshotOf(ts, first, start) ==
    IF variant = "A" \/ ts = <<>>
    THEN [ttft |-> Null, itl |-> Null, tokens |-> Null]
    ELSE [ttft |-> IF Truthy(first) THEN Some(Num(first[1] - start)) ELSE Null,
          itl |-> IF Len(ts) > 1
                  THEN Some(JSDiv(Num(SumSeq(Latencies(ts))), Num(Len(ts) - 1)))
                  ELSE Null,
          tokens |-> Some(Len(ts))]
LiveSnapshot == LiveSnapshotOf(tokenTimestamps, firstTokenTime, startTime)

\* ---------------------------------------------------------------- export
\* A text is a sequence of pieces: each ',' and each line break is a piece of its
\* own, and the characters between two of them form one piece.
Text(s) == IF s = "m,2" THEN <<"m", ",", "2">> ELSE <<s>>

\* Array.prototype.join on texts
RECURSIVE Join(_, _)
Join(texts, sep) ==
    IF texts = <<>> THEN <<>>
    ELSE IF Len(texts) = 1 THEN texts[1]
    ELSE texts[1] \o <<sep>> \o Join(Tail(texts), sep)

RECURSIVE Pow10(_)
Pow10(k) == IF k = 0 THEN 1 ELSE 10 * Pow10(k - 1)

\* the last k decimal digits of n, with leading zeros
RECURSIVE Digits(_, _)
Digits(n, k) == IF k = 0 THEN "" ELSE Digits(n \div 10, k - 1) \o ToString(n % 10)

\* Number.prototype.toFixed(k), k > 0, of a number that is not negative: the
\* nearest multiple of 10^-k, the larger one on a tie; NaN and Infinity by name
ToFixed(x, k) ==
    IF ~IsFinite(x)
    THEN (IF x.n = 0 THEN "NaN" ELSE "Infinity")
    ELSE LET scaled == (2 * x.n * Pow10(k) + x.d) \div (2 * x.d)
         IN ToString(scaled \div Pow10(k)) \o "." \o Digits(scaled % Pow10(k), k)

\* the rows of exportCSV, headers first: each row is a list of cells
CSVRows(res) ==
    << <<"Metric", "Value">>,
       <<"Model", res.model>>,
       <<"Device", res.device>>,
       <<"TTFT (ms)", ToFixed(res.metrics.ttft, 2)>>,
       <<"ITL (ms)", ToFixed(res.metrics.itl, 2)>>,
       <<"Tokens Generated", ToString(res.metrics.tokensGenerated)>>,
       <<"Total Time (s)", ToFixed(res.metrics.totalTimeSeconds, 3)>>,
       <<"Throughput (tok/s)", ToFixed(res.metrics.tokensPerSecond, 2)>>,
       <<"Timestamp", ToString(res.timestamp)>> >>

\* rows.map(row => row.join(sep))
RECURSIVE MapJoin(_, _)
MapJoin(rows, sep) ==
    IF rows = <<>> THEN <<>>
    ELSE <<Join([c \in 1..Len(rows[1]) |-> Text(rows[1][c])], sep)>> \o MapJoin(Tail(rows), sep)

\* [headers, ...rows].map(row => row.join(',')).join('\n')
CSVText(res) == Join(MapJoin(CSVRows(res), ","), "\n")

\* faulty variant: without a result the export is the header row alone
ExportCSVHeaderOnly(r) ==
    IF r = Null THEN Some(Join(<<Text("Metric"), Text("Value")>>, ",")) ELSE Some(CSVText(r[1]))

\* exportCSV(), r being the value of `results`
ExportCSVOf(r) == IF r = Null THEN Null ELSE Some(CSVText(r[1]))
ExportCSV == ExportCSVOf(results)

\* JSON.stringify of a number: a number literal, and null for NaN and Infinity
JSONNumber(x) == IF IsFinite(x) THEN [lit |-> "number", v |-> x] ELSE [lit |-> "null", v |-> Num(0)]
\* JSON.stringify of a string: a string literal, with its characters escaped
JSONString(s) == [lit |-> "string", v |-> s]

\* JSON.stringify(results, null, 2): the document, member by member in key order
JSONStringify(res) ==
    [model |-> JSONString(res.model),
     device |-> JSONString(res.device),
     maxTokens |-> JSONNumber(Num(res.maxTokens)),
     metrics |-> [ttft |-> JSONNumber(res.metrics.ttft),
                  itl |-> JSONNumber(res.metrics.itl),
                  tokensGenerated |-> JSONNumber(Num(res.metrics.tokensGenerated)),
                  totalTimeSeconds |-> JSONNumber(res.metrics.totalTimeSeconds),
                  tokensPerSecond |-> JSONNumber(res.metrics.tokensPerSecond)],
     tokenTimestamps |-> [i \in 1..Len(res.tokenTimestamps) |-> JSONNumber(Num(res.tokenTimestamps[i]))],
     timestamp |-> JSONString(res.timestamp),
     userAgent |-> JSONString(res.userAgent)]

\* exportJSON(), r being the value of `results`
ExportJSONOf(r) == IF r = Null THEN Null ELSE Some(JSONStringify(r[1]))
ExportJSON == ExportJSONOf(results)

\* a click on one of the export buttons: the handler calls the export function
\* and hands a string to the clipboard or to a download; without a string it
\* does nothing.  No program state changes.
ExportClick(button) ==
    /\ lastEvent' = button
    /\ UNCHANGED <<envVars, now, progVars, trace, activeRuns, loadCalls, genCalls,
                   changedWhileIdle, arrivals, genCalledAt, runs>>

CopyJson == ExportClick("copyJson")
DownloadJson == ExportClick("downloadJson")
DownloadCsv == ExportClick("downloadCsv")

\* several runs, with a clock that stands still
Next ==
    \/ \E m \in Models, n \in LifeTargets, t \in Frozen : RunBenchmark(m, n, t, MaxRuns)
    \/ \E s \in LoadStatuses, p \in Pcts : ProgressCallback(s, p)
    \/ \E t \in Frozen : LoadResolved(t)
    \/ \E r \in Reasons : LoadRejected(r)
    \/ \E t \in Frozen : CallbackFunction(t)
    \/ \E t \in Frozen : GenerateResolved(t)
    \/ \E r \in Reasons : GenerateRejected(r)
    \/ \E d \in Devices : DeviceChange(d)

Spec == Init /\ [][Next]_vars

\* one run, with a clock that advances
NextTiming ==
    \/ \E m \in Models, n \in Targets, t \in Instants : RunBenchmark(m, n, t, 1)
    \/ \E s \in LoadStatuses, p \in Pcts : ProgressCallback(s, p)
    \/ \E t \in Instants : LoadResolved(t)
    \/ \E r \in Reasons : LoadRejected(r)
    \/ \E t \in Instants : CallbackFunction(t)
    \/ \E t \in Instants : GenerateResolved(t)
    \/ \E r \in Reasons : GenerateRejected(r)
    \/ \E d \in Devices : DeviceChange(d)

SpecTiming == Init /\ [][NextTiming]_vars

\* one run with a clock that advances, and the export buttons
NextExport ==
    \/ NextTiming
    \/ CopyJson
    \/ DownloadJson
    \/ DownloadCsv

SpecExport == Init /\ [][NextExport]_vars

\* ======================================================================
\* Properties
\* ======================================================================

\* a step in which a run request is accepted (runBenchmark passes its guard)
Accepts == runs' = runs + 1
\* a step in which a run completes: the generator call resolved
Completes == pc = "generating" /\ trace' = trace \o <<"Completed", "Idle">>

\* C1: at most one run is active at any time: the flows of runBenchmark that
\* passed the guard and have not reset number at most one, that one is the run
\* isRunning stands for, and it is suspended in loading or generating.
C1_AtMostOneRun ==
    /\ activeRuns \in {0, 1}
    /\ isRunning <=> activeRuns = 1
    /\ isRunning <=> pc \in {"loading", "generating"}
\* a run request arrived while a run was generating and had recorded arrivals
C1_Witness ==
    isRunning /\ lastEvent = "click" /\ pc = "generating" /\ arrivals > 0

\* C2: a run request made while the state is not Idle changes nothing: no
\* collaborator call, no new start instant, and the arrival log, the progress
\* scalar, the resident pipeline and the stored result stay as they were.
C2_RejectedNoEffect ==
    [][(isRunning /\ lastEvent' = "click")
        => UNCHANGED <<now, progVars, trace, activeRuns, loadCalls, genCalls,
                       arrivals, genCalledAt, runs>>]_vars
\* a run request arrived while a run was loading and had reported progress
C2_Witness ==
    isRunning /\ lastEvent = "click" /\ pc = "loading" /\ progress = Num(45)

\* C3 as claimed: after a device change in Idle the next accepted run request
\* goes through LoadingModel and calls the load collaborator.
C3_Original ==
    [][(changedWhileIdle /\ Accepts)
        => (trace' = <<"Idle", "LoadingModel">> /\ loadCalls' = 1)]_vars
\* C3 as amended: after a device change in Idle the next accepted run request
\* goes through LoadingModel and calls the load collaborator, unless the device
\* now selected is the GPU-accelerated one and it is unavailable.
C3_ReloadAfterDeviceChange ==
    [][(changedWhileIdle /\ Accepts /\ ~Unsupported(deviceSelect))
        => (trace' = <<"Idle", "LoadingModel">> /\ loadCalls' = 1 /\ pc' = "loading")]_vars
\* the second run loads again for the model and after the device changed
C3_Witness ==
    /\ changedWhileIdle /\ pc = "loading" /\ runs = 2 /\ results # Null
    /\ results[1].model = modelId /\ results[1].device # device
    /\ trace = <<"Idle", "LoadingModel">>

\* C4: a run request for the GPU-accelerated device where it is unavailable goes
\* from Idle to Failed and back to Idle in the one handler, calls no collaborator
\* and leaves the pipeline and the stored result alone, resident pipeline or not.
C4_UnsupportedFailsWithoutLoad ==
    [][(Accepts /\ deviceSelect = "webgpu" /\ ~gpu)
        => /\ trace' = <<"Idle", "Failed", "Idle">>
           /\ loadCalls' = 0 /\ genCalls' = 0
           /\ ~isRunning' /\ pc' = "idle" /\ activeRuns' = 0
           /\ progress' = Num(0)
           /\ UNCHANGED <<generator, currentModel, results, now>>]_vars
\* the unsupported-device failure with a pipeline resident
C4_Witness ==
    /\ trace = <<"Idle", "Failed", "Idle">> /\ generator # Null
    /\ loadCalls = 0 /\ genCalls = 0 /\ ~isRunning

\* C5 as claimed, for requests that pass the device check: the run goes straight
\* to Generating, with no load, if the resident pipeline was loaded for the
\* requested model and device, and through LoadingModel otherwise.
C5_Claim ==
    [][(Accepts /\ ~Unsupported(deviceSelect))
        => IF generator = Some([model |-> modelId', device |-> deviceSelect])
           THEN trace' = <<"Idle", "Generating">> /\ loadCalls' = 0
           ELSE trace' = <<"Idle", "LoadingModel">> /\ loadCalls' = 1]_vars

\* C6 as claimed: a result with totalTimeSeconds = 0 stores the sentinel 0 as
\* tokensPerSecond, never Infinity or NaN.
C6_Claim ==
    (results # Null /\ results[1].metrics.totalTimeSeconds = Num(0))
        => results[1].metrics.tokensPerSecond = Num(0)

\* C7: a completed run with N token-arrival events stores tokensGenerated = N
\* and a raw arrival log of length N.
C7_TokensGeneratedIsArrivals ==
    [][Completes
        => /\ results' # Null
           /\ results'[1].metrics.tokensGenerated = arrivals
           /\ Len(results'[1].tokenTimestamps) = arrivals]_vars
\* a result with more arrivals than the target token count
C7_Witness ==
    results # Null /\ results[1].metrics.tokensGenerated > results[1].maxTokens

\* C8: ttft of a completed run is the first arrival instant minus the start
\* instant when a token arrived, and 0 when none did.
C8_Ttft ==
    [][Completes
        => results'[1].metrics.ttft =
              IF arrivals > 0 THEN Num(tokenTimestamps[1] - startTime) ELSE Num(0)]_vars
\* a result whose first arrival instant is numerically 0, the start instant
C8_Witness ==
    /\ results # Null /\ Len(results[1].tokenTimestamps) > 0
    /\ results[1].tokenTimestamps[1] = 0 /\ results[1].metrics.ttft = Num(0)

\* C9: itl of a result with N arrivals is 0 when N < 2, and otherwise the mean of
\* the N-1 consecutive deltas: itl * (N-1) = arrival[N-1] - arrival[0].
C9_Itl ==
    results # Null =>
        LET ts == results[1].tokenTimestamps
            itl == results[1].metrics.itl
            N == Len(ts)
        IN IF N < 2
           THEN itl = Num(0)
           ELSE IsFinite(itl) /\ itl.n * (N - 1) = (ts[N] - ts[1]) * itl.d
\* three arrivals whose two deltas differ and whose mean is not a whole number
C9_Witness ==
    /\ results # Null /\ Len(results[1].tokenTimestamps) = 3
    /\ results[1].metrics.itl.d = 2
    /\ results[1].tokenTimestamps[2] = results[1].tokenTimestamps[1]

\* C10: totalTimeSeconds of a completed run is the span from the instant the
\* generate collaborator was called to the instant it returned, in seconds, and
\* when it is positive tokensPerSecond * totalTimeSeconds = tokensGenerated.
C10_Throughput ==
    [][Completes
        => LET m == results'[1].metrics IN
           /\ m.totalTimeSeconds = Rat(now' - genCalledAt, 1000)
           /\ m.totalTimeSeconds.n > 0
                => /\ IsFinite(m.tokensPerSecond)
                   /\ JSMul(m.tokensPerSecond, m.totalTimeSeconds) = Num(m.tokensGenerated)]_vars
\* a run that loaded its model, waited for its first token and produced tokens
C10_Witness ==
    /\ results # Null /\ trace = <<"Idle", "LoadingModel", "Generating", "Completed", "Idle">>
    /\ results[1].metrics.ttft.n > 0
    /\ results[1].metrics.tokensGenerated = 2
    /\ results[1].metrics.totalTimeSeconds = Rat(3, 1000)

\* the run that ended last (or the run in flight) went through state st
Passed(st) == \E i \in 1..Len(trace) : trace[i] = st

\* C11 as claimed: while a run is in flight, up to and including the step that
\* brings it back to Idle, no step lowers the progress scalar.
C11_Claim ==
    [][isRunning => JSLeq(progress, progress')]_vars

\* C12 as claimed: the progress scalar is within [0,100] in every reachable state.
C12_Claim ==
    JSLeq(Num(0), progress) /\ JSLeq(progress, Num(100))

\* C13 as claimed: the progress scalar is strictly below 100 in LoadingModel and
\* in Generating and after a run that failed, and it is 100 after a run that
\* completed, until the next request is accepted.
C13_Claim ==
    /\ isRunning => ~JSLeq(Num(100), progress)
    /\ (~isRunning /\ Passed("Failed")) => ~JSLeq(Num(100), progress)
    /\ (~isRunning /\ Passed("Completed")) => progress = Num(100)

\* C14: before any run has completed, while the first run is loading or
\* generating and after a run that failed, exportJSON and exportCSV yield no
\* string: they return null, and the button handlers then do nothing.
C14_NoResultBeforeCompletion ==
    ~Passed("Completed") => (ExportJSON = Null /\ ExportCSV = Null)
\* an export button was clicked after a run that failed in generation
C14_Witness ==
    /\ lastEvent \in {"copyJson", "downloadJson", "downloadCsv"}
    /\ ~isRunning /\ Passed("Failed") /\ genCalls = 1 /\ results = Null

\* the pieces of a text between the occurrences of a separator
RECURSIVE Split(_, _)
Split(text, sep) ==
    IF \A i \in 1..Len(text) : text[i] # sep
    THEN <<text>>
    ELSE LET i == CHOOSE k \in 1..Len(text) :
                      text[k] = sep /\ \A j \in 1..(k - 1) : text[j] # sep
         IN <<SubSeq(text, 1, i - 1)>> \o Split(SubSeq(text, i + 1, Len(text)), sep)

CSVLabels ==
    <<"Metric", "Model", "Device", "TTFT (ms)", "ITL (ms)", "Tokens Generated",
      "Total Time (s)", "Throughput (tok/s)", "Timestamp">>

\* C15 as claimed: the CSV text of a stored result has the header row
\* Metric,Value and then 8 rows in the fixed order, and every row has exactly
\* two comma-separated columns.
C15_Claim ==
    results # Null =>
        LET lines == Split(ExportCSV[1], "\n") IN
        /\ Len(lines) = 9
        /\ \A i \in 1..Len(lines) :
              LET cols == Split(lines[i], ",") IN
              /\ Len(cols) = 2
              /\ cols[1] = <<CSVLabels[i]>>
        /\ Split(lines[1], ",")[2] = <<"Value">>

\* JSON.parse of a literal: null for null, the value otherwise
JSONValue(j) == IF j.lit = "null" THEN Null ELSE Some(j.v)

\* JSON.parse of the document of exportJSON
JSONParse(doc) ==
    [model |-> JSONValue(doc.model),
     device |-> JSONValue(doc.device),
     maxTokens |-> JSONValue(doc.maxTokens),
     metrics |-> [f \in DOMAIN doc.metrics |-> JSONValue(doc.metrics[f])],
     tokenTimestamps |-> [i \in 1..Len(doc.tokenTimestamps) |-> JSONValue(doc.tokenTimestamps[i])],
     timestamp |-> JSONValue(doc.timestamp),
     userAgent |-> JSONValue(doc.userAgent)]

\* a result as a parsed document that equals it field by field
AsParsed(res) ==
    [model |-> Some(res.model),
     device |-> Some(res.device),
     maxTokens |-> Some(Num(res.maxTokens)),
     metrics |-> [ttft |-> Some(res.metrics.ttft),
                  itl |-> Some(res.metrics.itl),
                  tokensGenerated |-> Some(Num(res.metrics.tokensGenerated)),
                  totalTimeSeconds |-> Some(res.metrics.totalTimeSeconds),
                  tokensPerSecond |-> Some(res.metrics.tokensPerSecond)],
     tokenTimestamps |-> [i \in 1..Len(res.tokenTimestamps) |-> Some(Num(res.tokenTimestamps[i]))],
     timestamp |-> Some(res.timestamp),
     userAgent |-> Some(res.userAgent)]

\* C16 as claimed: parsing the JSON export of a stored result gives back the
\* result, field by field, also for 0 tokens and for totalTimeSeconds = 0.
C16_Claim ==
    results # Null => JSONParse(ExportJSON[1]) = AsParsed(results[1])

\* a step in which a run ends without completing
Fails == isRunning /\ ~isRunning' /\ ~Completes

\* C17: a run that ends because the load or the generate collaborator failed
\* goes through Failed to Idle, shows a status message that carries the failure
\* reason, stores no result, and the handler resets and returns normally.
C17_FailuresCaught ==
    [][Fails
        => /\ trace' = trace \o <<"Failed", "Idle">>
           /\ statusText'.msg = (IF pc = "loading" THEN "Error loading model" ELSE "Error")
           /\ statusText'.arg \in Reasons
           /\ UNCHANGED results
           /\ pc' = "idle" /\ activeRuns' = 0]_vars
\* the generate collaborator failed in the second run, which used the resident
\* pipeline; the result of the first run is still stored
C17_Witness ==
    /\ ~isRunning /\ runs = 2 /\ results # Null
    /\ trace = <<"Idle", "Generating", "Failed", "Idle">>
    /\ statusText = Status("Error", "err") /\ progress = Num(0)

\* two runs, with a clock that stands still
NextPair ==
    \/ \E m \in Models, n \in LifeTargets, t \in Frozen : RunBenchmark(m, n, t, 2)
    \/ \E s \in LoadStatuses, p \in Pcts : ProgressCallback(s, p)
    \/ \E t \in Frozen : LoadResolved(t)
    \/ \E r \in Reasons : LoadRejected(r)
    \/ \E t \in Frozen : CallbackFunction(t)
    \/ \E t \in Frozen : GenerateResolved(t)
    \/ \E r \in Reasons : GenerateRejected(r)
    \/ \E d \in Devices : DeviceChange(d)

SpecPair == Init /\ [][NextPair]_vars

\* every collaborator call settles: the pending load resolves or rejects, and so
\* does the pending generation
SpecLive ==
    /\ SpecPair
    /\ WF_vars((\E t \in Frozen : LoadResolved(t)) \/ (\E r \in Reasons : LoadRejected(r)))
    /\ WF_vars((\E t \in Frozen : GenerateResolved(t)) \/ (\E r \in Reasons : GenerateRejected(r)))

\* C18: every run in flight eventually is back in Idle, and a run request
\* handled in Idle is never rejected.
C18_ReturnsToIdle ==
    /\ isRunning ~> ~isRunning
    /\ [][(~isRunning /\ lastEvent' = "click") => Accepts]_vars
\* the second request was accepted in Idle, for another model than the stored result
C18_Witness ==
    /\ runs = 2 /\ isRunning /\ lastEvent = "click" /\ results # Null
    /\ results[1].model # modelId

\* C19: the stored result changes only in the step that completes a run, which
\* stores the result of that run and makes exportJSON and exportCSV return it; a
\* failing run, a rejected request and every step of a run in flight leave it
\* as it was, and what exportJSON and exportCSV return is the same before and
\* after every step that ends in Idle without completing a run.
C19_ResultChangesOnlyOnCompletion ==
    [][IF Completes
       THEN /\ results' = Some(BuildResults(modelId, device, maxTokens, tokenTimestamps,
                                            firstTokenTime, startTime, now'))
            /\ ExportJSONOf(results') = Some(JSONStringify(results'[1]))
            /\ ExportCSVOf(results') = Some(CSVText(results'[1]))
       ELSE /\ UNCHANGED results
            /\ ~isRunning' => /\ ExportJSONOf(results') = ExportJSON
                              /\ ExportCSVOf(results') = ExportCSV]_vars
\* the result of the first run is still stored and exported after the second
\* run, for another model, failed to load
C19_Witness ==
    /\ runs = 2 /\ ~isRunning /\ results # Null
    /\ trace = <<"Idle", "LoadingModel", "Failed", "Idle">>
    /\ currentModel = Some(results[1].model)
    /\ ExportCSV = Some(CSVText(results[1])) /\ ExportJSON = Some(JSONStringify(results[1]))

\* C20: a run calls the load collaborator at most once and the generate
\* collaborator at most once; the load is called only by the step that accepts a
\* request, the generation only by that step or by the step in which the load
\* resolves; and requests are accepted only on a click.
C20_NoRetries ==
    [][/\ loadCalls' <= 1 /\ genCalls' <= 1
       /\ Accepts => lastEvent' = "click"
       /\ ~Accepts =>
            /\ loadCalls' = loadCalls
            /\ genCalls' # genCalls
                 => (pc = "loading" /\ pc' = "generating" /\ genCalls = 0 /\ genCalls' = 1)]_vars
\* a device change handled in Idle after a load failure: no collaborator call
C20_Witness ==
    /\ ~isRunning /\ trace = <<"Idle", "LoadingModel", "Failed", "Idle">>
    /\ loadCalls = 1 /\ genCalls = 0 /\ runs = 2
    /\ statusText.msg = "Device changed. Model will be reloaded on next benchmark."

\* C21: while a run generates, the log before a step is a prefix of the log
\* after it; a token-arrival event appends the instant it read, and nothing
\* else, at the end; every other step leaves the log as it was; and the log is
\* in arrival order, each entry at or after the one before.
C21_LogAppendOnly ==
    /\ [][(pc = "generating" /\ pc' = "generating")
            => /\ SubSeq(tokenTimestamps', 1, Len(tokenTimestamps)) = tokenTimestamps
               /\ IF arrivals' = arrivals + 1
                  THEN tokenTimestamps' = Append(tokenTimestamps, now')
                  ELSE UNCHANGED tokenTimestamps]_vars
    /\ [](\A i \in 1..(Len(tokenTimestamps) - 1) : tokenTimestamps[i] <= tokenTimestamps[i + 1])
\* a log of three arrivals at three different instants, during the run
C21_Witness ==
    /\ pc = "generating" /\ Len(tokenTimestamps) = 3 /\ arrivals = 3
    /\ tokenTimestamps[1] < tokenTimestamps[2] /\ tokenTimestamps[2] < tokenTimestamps[3]

\* C22: the run's configuration is captured when the request is accepted (the
\* device is the one selected then) and no later step of the run changes it,
\* whatever is selected meanwhile; the load that resolves stores a pipeline for
\* the captured model and device, and the result records the captured model,
\* device and token count.
C22_ConfigurationCaptured ==
    [][/\ (Accepts /\ isRunning')
            => (device' = deviceSelect /\ modelId' \in Models /\ maxTokens' \in LifeTargets)
       /\ (isRunning /\ isRunning') => UNCHANGED <<modelId, device, maxTokens>>
       /\ (pc = "loading" /\ pc' = "generating")
            => (generator' = Some([model |-> modelId, device |-> device])
                /\ currentModel' = Some(modelId))
       /\ Completes
            => /\ results'[1].model = modelId
               /\ results'[1].device = device
               /\ results'[1].maxTokens = maxTokens]_vars
\* the result of a run during which another device was selected
C22_Witness ==
    /\ ~isRunning /\ runs = 1 /\ ~changedWhileIdle /\ results # Null
    /\ results[1].device # deviceSelect
    /\ trace = <<"Idle", "LoadingModel", "Generating", "Completed", "Idle">>

\* the ways a run can go, as sequences of RunStates
Paths ==
    {<<"Idle">>,
     <<"Idle", "Failed", "Idle">>,
     <<"Idle", "LoadingModel">>,
     <<"Idle", "LoadingModel", "Failed", "Idle">>,
     <<"Idle", "LoadingModel", "Generating">>,
     <<"Idle", "LoadingModel", "Generating", "Failed", "Idle">>,
     <<"Idle", "LoadingModel", "Generating", "Completed", "Idle">>,
     <<"Idle", "Generating">>,
     <<"Idle", "Generating", "Failed", "Idle">>,
     <<"Idle", "Generating", "Completed", "Idle">>}

\* C23: a run enters Generating only from Idle with a pipeline resident for the
\* requested model, or from LoadingModel in the step in which the load resolves
\* and stores the pipeline; Completed follows Generating only; the generate
\* collaborator is called exactly by the runs that enter Generating; and a
\* result is stored only by a step from Generating to Completed.
C23_GeneratingNeedsPipeline ==
    /\ [](trace \in Paths /\ (genCalls = 1 <=> Passed("Generating")))
    /\ [][/\ (pc # "generating" /\ pc' = "generating")
               => /\ generator' # Null /\ currentModel' = Some(modelId')
                  /\ pc = "idle" => (UNCHANGED generator /\ loadCalls' = 0)
                  /\ pc = "loading" => loadCalls = 1
          /\ results' # results => (pc = "generating" /\ genCalls = 1 /\ Completes)]_vars
\* a load failed while a pipeline for another model was resident: no generation
C23_Witness ==
    /\ trace = <<"Idle", "LoadingModel", "Failed", "Idle">> /\ genCalls = 0
    /\ generator # Null /\ results # Null /\ lastEvent = "other"
    /\ statusText.msg = "Error loading model"

\* C24: the start instant is read in the step that calls the generate
\* collaborator, at or after every instant read before (so after the load has
\* resolved), and the end instant in the step in which the call returns; for the
\* result that step stores, start <= arrival[1] <= ... <= arrival[N] <= end,
\* ttft >= 0, every inter-token delta is >= 0, and totalTimeSeconds in
\* milliseconds is at least ttft plus the sum of the deltas.
C24_TimingOrder ==
    [][/\ (pc # "generating" /\ pc' = "generating")
            => (startTime' = now' /\ genCalledAt' = now' /\ now <= now')
       /\ Completes
            => LET r == results'[1]
                   ts == r.tokenTimestamps
                   N == Len(ts)
               IN /\ r.timestamp = now' /\ startTime <= now'
                  /\ N > 0 => (startTime <= ts[1] /\ ts[N] <= now')
                  /\ \A i \in 1..(N - 1) : ts[i] <= ts[i + 1]
                  /\ JSLeq(Num(0), r.metrics.ttft)
                  /\ \A i \in 1..(N - 1) : Latencies(ts)[i] >= 0
                  /\ JSLeq(JSAdd(r.metrics.ttft, Num(SumSeq(Latencies(ts)))),
                           JSMul(r.metrics.totalTimeSeconds, Num(1000)))]_vars
\* a run whose start instant is after the clock's origin (the load took time),
\* with a wait before the first token and a gap between the two tokens
C24_Witness ==
    /\ results # Null /\ trace = <<"Idle", "LoadingModel", "Generating", "Completed", "Idle">>
    /\ results[1].tokenTimestamps = <<2, 3>>
    /\ results[1].metrics.ttft = Num(1)
    /\ results[1].metrics.totalTimeSeconds = Rat(2, 1000)

\* C25: a step in which the device selection changes clears the pipeline
\* reference and the current-model marker and leaves alone the RunState, the
\* progress scalar, the run's configuration, log, first-arrival and start
\* instants, the stored result, and the run itself, which stays in flight.
C25_DeviceChangeFrame ==
    [][deviceSelect' # deviceSelect
        => /\ generator' = Null /\ currentModel' = Null
           /\ RunState' = RunState
           /\ UNCHANGED <<isRunning, pc, progress, modelId, device, maxTokens,
                          tokenTimestamps, firstTokenTime, startTime, results, now,
                          trace, activeRuns, loadCalls, genCalls, arrivals>>]_vars
\* the device was changed while a run was generating and had logged an arrival
C25_Witness ==
    /\ pc = "generating" /\ arrivals > 0 /\ device # deviceSelect /\ generator = Null
    /\ statusText.msg = "Device changed. Model will be reloaded on next benchmark."
    /\ ~JSLeq(progress, Num(60))

\* C26: the log is empty and no first arrival is recorded when a run starts
\* generating, whatever the runs before it left; the log holds one entry for each
\* arrival of the run in flight; and the result of a run holds that run's own
\* arrivals: tokensGenerated is their number, and ttft and itl are those of its
\* own log (0 when the run had no arrival).
C26_FreshLogPerRun ==
    /\ [](Len(tokenTimestamps) = arrivals /\ (firstTokenTime # Null => arrivals > 0))
    /\ [][/\ (pc # "generating" /\ pc' = "generating")
               => (tokenTimestamps' = <<>> /\ firstTokenTime' = Null /\ arrivals' = 0)
          /\ Completes
               => LET r == results'[1] IN
                  /\ r.tokenTimestamps = tokenTimestamps
                  /\ r.metrics.tokensGenerated = arrivals
                  /\ r.metrics.ttft = Ttft(firstTokenTime, startTime)
                  /\ r.metrics.itl = Itl(tokenTimestamps)
                  /\ arrivals = 0 => (r.metrics.ttft = Num(0) /\ r.metrics.itl = Num(0))]_vars
\* the second run generates, with one arrival, after a first run that stored a
\* result with two
C26_Witness ==
    /\ runs = 2 /\ pc = "generating" /\ arrivals = 1 /\ Len(tokenTimestamps) = 1
    /\ results # Null /\ results[1].metrics.tokensGenerated = 2

\* C27: the minimum and the maximum inter-token latency shown for the stored
\* result are both 0 when its log has fewer than 2 arrivals; with N >= 2 arrivals
\* they are deltas of that log and bracket the mean:
\* min * (N-1) <= arrival[N] - arrival[1] <= max * (N-1), and min <= itl <= max.
C27_MinMaxLatency ==
    results # Null =>
        LET ts == results[1].tokenTimestamps
            N == Len(ts)
        IN IF N < 2
           THEN ItlMin = 0 /\ ItlMax = 0
           ELSE /\ \E i \in 1..(N - 1) : ItlMin = ts[i + 1] - ts[i]
                /\ \E i \in 1..(N - 1) : ItlMax = ts[i + 1] - ts[i]
                /\ ItlMin * (N - 1) <= ts[N] - ts[1]
                /\ ts[N] - ts[1] <= ItlMax * (N - 1)
                /\ JSLeq(Num(ItlMin), results[1].metrics.itl)
                /\ JSLeq(results[1].metrics.itl, Num(ItlMax))
\* a result with three arrivals whose two deltas differ: min < itl < max
C27_Witness ==
    /\ results # Null /\ results[1].tokenTimestamps = <<0, 1, 3>>
    /\ ItlMin = 1 /\ ItlMax = 2 /\ results[1].metrics.itl = Rat(3, 2)

\* C28 as claimed: when a run completes, the live metrics shown since its last
\* token arrival agree with the result: the count is tokensGenerated, the itl is
\* the result's itl if there were 2 arrivals or more, and the ttft shown since
\* the first arrival is the result's ttft.
C28_Claim ==
    [][(Completes /\ arrivals > 0)
        => LET m == results'[1].metrics IN
           /\ LiveSnapshot.tokens = Some(m.tokensGenerated)
           /\ arrivals >= 2 => LiveSnapshot.itl = Some(m.itl)
           /\ LiveSnapshot.ttft = Some(m.ttft)]_vars

\* C29 as claimed: whatever device changes occurred during earlier runs, a run
\* that enters Generating does so with a resident pipeline that was loaded for
\* the model and the device of its own configuration.
C29_Claim ==
    [][(pc # "generating" /\ pc' = "generating")
        => generator' = Some([model |-> modelId', device |-> device'])]_vars

\* C30: a step in which a load fails leaves the resident pipeline and the
\* current-model marker as they were; whenever a pipeline is resident the marker
\* is the model it was loaded for; and an accepted request on a supported device
\* skips loading exactly when a pipeline is resident and was loaded for the
\* requested model, so after a failed load the model that was resident before is
\* run without loading and the model whose load failed is loaded again.
C30_FailedLoadKeepsPipeline ==
    /\ [](generator # Null => currentModel = Some(generator[1].model))
    /\ [][(pc = "loading" /\ ~isRunning') => UNCHANGED <<generator, currentModel>>]_vars
    /\ [][(Accepts /\ ~Unsupported(deviceSelect))
            => IF generator # Null /\ generator[1].model = modelId'
               THEN trace' = <<"Idle", "Generating">> /\ loadCalls' = 0
               ELSE trace' = <<"Idle", "LoadingModel">> /\ loadCalls' = 1]_vars
\* the second run has just failed to load a model while the pipeline the first
\* run loaded and completed with was resident: it still is, under its marker
C30_Witness ==
    /\ runs = 2 /\ ~isRunning /\ loadCalls = 1
    /\ trace = <<"Idle", "LoadingModel", "Failed", "Idle">>
    /\ statusText.msg = "Error loading model"
    /\ results # Null /\ generator # Null
    /\ generator[1].model = results[1].model
    /\ currentModel = Some(generator[1].model)

====
